---- MODULE Spec2Model ----
(***************************************************************************)
(* A model of the SVIST attendance system (src/app.py): the relational     *)
(* tables the request handlers read and write, and one action per database *)
(* step of each handler.                                                   *)
(*                                                                         *)
(* Requests run concurrently, each in its own SQLAlchemy session.  A       *)
(* handler that reads and later commits is split where another request can *)
(* commit in between: <handler>_begin performs the handler's reads (one    *)
(* consistent snapshot, the isolation of the TiDB/MySQL store configured   *)
(* at src/app.py:36-61) and prepares the writes in the session;            *)
(* <handler>_commit is db.session.commit(); <handler>_rollback is the      *)
(* handler's except branch.  A handler that returns before writing is one  *)
(* action, <handler>_reject.                                               *)
(***************************************************************************)
EXTENDS Integers, Sequences, FiniteSets, Bags, TLC

\* ------------------------------------------------------------------ bounds
MaxDay == 2
MaxInFlight == 2
MaxStudents == 2
MaxStops == 2
MaxAtt == 2
MaxLog == 2
MaxPeriod == 1
MaxTeachers == 1
MaxRows == 2

\* ------------------------------------------------------- program constants
LOW_ATTENDANCE == 75
ALLOWED_RADIUS_M == 500

\* ------------------------------------------------------------- input sets
Days == 1..MaxDay
Periods == 1..MaxPeriod
Branches == {"CSE", "ECE"}
Semesters == {3}
Sections == {"A"}
Emails == {"s1@svist", "s2@svist"}
RegNos == {"R1", "R2"}
Statuses == {"present", "absent"}
AttendanceTypes == {"theory", "lab"}
Subjects == {"Maths"}
ADMIN_USER_ID == 1
TeacherIds == 1..MaxTeachers

\* The registered teachers: teacher 1 belongs to CSE, every other to ECE.
TeacherBranch(t) == IF t = 1 THEN "CSE" ELSE "ECE"

\* Coordinates a client can send: none, a non-numeric string, the reference
\* point, a point about one kilometre away.
Coords == {"none", "abc", "ref", "far"}

VARIABLES
  users,               \* set of User rows
  students,            \* set of Student rows
  stopped_semesters,   \* set of StoppedSemester rows
  semester_history,    \* set of SemesterHistory rows
  attendance,          \* set of Attendance rows
  teacher_attendance,  \* set of TeacherAttendance rows
  admin_logs,          \* sequence of AdminLog rows
  today,               \* datetime.now().date()
  session,             \* bag of the open transactions, one per request in flight
  last                 \* the response of the request that finished last

vars == <<users, students, stopped_semesters, semester_history, attendance,
          teacher_attendance, admin_logs, today, session, last>>

db == <<users, students, stopped_semesters, semester_history, attendance,
        teacher_attendance, admin_logs>>

\* ------------------------------------------------------------ pure helpers

\* src/app.py:312-320, in metres, for the coordinates of Coords.
calculate_distance(latitude, longitude) ==
  IF latitude = "ref" /\ longitude = "ref" THEN 0 ELSE 1000

verify_location(latitude, longitude) ==
  IF latitude = "none" \/ longitude = "none" THEN FALSE
  ELSE IF latitude = "abc" \/ longitude = "abc" THEN FALSE
  ELSE calculate_distance(latitude, longitude) <= ALLOWED_RADIUS_M

ActiveStops(stops, branch, semester) ==
  {r \in stops : r.branch = branch /\ r.semester = semester /\ r.is_active}

is_semester_stopped(stops, branch, semester) ==
  ActiveStops(stops, branch, semester) # {}

\* A faulty guard: an empty bucket counts as full attendance.
Percentage_EmptyIsFull(present, total) ==
  IF total > 0 THEN (present * 100) \div total ELSE 100

\* present / total * 100, the float floored to an integer; 0 when total = 0.
Percentage(present, total) ==
  IF total > 0 THEN (present * 100) \div total ELSE 0

Present(rows) == Cardinality({a \in rows : a.status = "present"})

\* att.date.strftime('%Y-%m'): the calendar month of a day.  Months are two
\* days long here and day 1 is the last day of month 0.
month_key(date) == date \div 2

\* Per subject: the rows of the subject, those present, their percentage.
subject_wise(attendances) ==
  [subject \in {a.subject : a \in attendances} |->
     LET rows == {a \in attendances : a.subject = subject}
     IN [total |-> Cardinality(rows), present |-> Present(rows),
         percentage |-> Percentage(Present(rows), Cardinality(rows))]]

\* Per month: theory rows on one side, every other row on the other.
monthly_data(attendances) ==
  [month \in {month_key(a.date) : a \in attendances} |->
     LET rows == {a \in attendances : month_key(a.date) = month}
         theory == {a \in rows : a.attendance_type = "theory"}
     IN [theory_total |-> Cardinality(theory),
         theory_present |-> Present(theory),
         practical_total |-> Cardinality(rows \ theory),
         practical_present |-> Present(rows \ theory)]]

\* A faulty split: every row that is not theory counts as practical (the
\* rule of the monthly breakdown, src/app.py:385-392).
get_comprehensive_attendance_ElseIsPractical(att, student, start_date, end_date) ==
  LET attendances == {a \in att : /\ a.student_id = student.id
                                  /\ a.date >= start_date
                                  /\ a.date <= end_date
                                  /\ a.semester_at_time = student.current_semester}
      theory_attendances == {a \in attendances : a.attendance_type = "theory"}
      practical_attendances == attendances \ theory_attendances
      theory_total == Cardinality(theory_attendances)
      theory_present == Present(theory_attendances)
      practical_total == Cardinality(practical_attendances)
      practical_present == Present(practical_attendances)
      total_periods == theory_total + practical_total
      present_periods == theory_present + practical_present
  IN [start_date |-> start_date, end_date |-> end_date,
      theory_total |-> theory_total, theory_present |-> theory_present,
      theory_percentage |-> Percentage(theory_present, theory_total),
      practical_total |-> practical_total,
      practical_present |-> practical_present,
      practical_percentage |-> Percentage(practical_present, practical_total),
      total_periods |-> total_periods, present_periods |-> present_periods,
      overall_percentage |-> Percentage(present_periods, total_periods),
      subject_wise |-> subject_wise(attendances),
      monthly_breakdown |-> monthly_data(attendances)]

\* A faulty total: every row in range counts, whatever its type.
get_comprehensive_attendance_TotalIsEveryRow(att, student, start_date, end_date) ==
  LET attendances == {a \in att : /\ a.student_id = student.id
                                  /\ a.date >= start_date
                                  /\ a.date <= end_date
                                  /\ a.semester_at_time = student.current_semester}
      theory_attendances == {a \in attendances : a.attendance_type = "theory"}
      practical_attendances ==
        {a \in attendances : a.attendance_type \in {"lab", "crt", "workshop"}}
      theory_total == Cardinality(theory_attendances)
      theory_present == Present(theory_attendances)
      practical_total == Cardinality(practical_attendances)
      practical_present == Present(practical_attendances)
      total_periods == Cardinality(attendances)
      present_periods == theory_present + practical_present
  IN [start_date |-> start_date, end_date |-> end_date,
      theory_total |-> theory_total, theory_present |-> theory_present,
      theory_percentage |-> Percentage(theory_present, theory_total),
      practical_total |-> practical_total,
      practical_present |-> practical_present,
      practical_percentage |-> Percentage(practical_present, practical_total),
      total_periods |-> total_periods, present_periods |-> present_periods,
      overall_percentage |-> Percentage(present_periods, total_periods),
      subject_wise |-> subject_wise(attendances),
      monthly_breakdown |-> monthly_data(attendances)]

get_comprehensive_attendance(att, student, start_date, end_date) ==
  LET attendances == {a \in att : /\ a.student_id = student.id
                                  /\ a.date >= start_date
                                  /\ a.date <= end_date
                                  /\ a.semester_at_time = student.current_semester}
      theory_attendances == {a \in attendances : a.attendance_type = "theory"}
      practical_attendances ==
        {a \in attendances : a.attendance_type \in {"lab", "crt", "workshop"}}
      theory_total == Cardinality(theory_attendances)
      theory_present == Present(theory_attendances)
      practical_total == Cardinality(practical_attendances)
      practical_present == Present(practical_attendances)
      total_periods == theory_total + practical_total
      present_periods == theory_present + practical_present
  IN [start_date |-> start_date, end_date |-> end_date,
      theory_total |-> theory_total, theory_present |-> theory_present,
      theory_percentage |-> Percentage(theory_present, theory_total),
      practical_total |-> practical_total,
      practical_present |-> practical_present,
      practical_percentage |-> Percentage(practical_present, practical_total),
      total_periods |-> total_periods, present_periods |-> present_periods,
      overall_percentage |-> Percentage(present_periods, total_periods),
      subject_wise |-> subject_wise(attendances),
      monthly_breakdown |-> monthly_data(attendances)]

NextId(table) == Cardinality(table) + 1

\* ------------------------------------------------------------------- Init
Init ==
  /\ users = {[id |-> ADMIN_USER_ID, email |-> "admin@svist.edu.in",
                role |-> "admin"]}
  /\ students = {}
  /\ stopped_semesters = {}
  /\ semester_history = {}
  /\ attendance = {}
  /\ teacher_attendance = {}
  /\ admin_logs = <<>>
  /\ today = 1
  /\ session = EmptyBag
  /\ last = [op |-> "none", code |-> "none"]

\* The clock: the date the handlers read advances.
Tick ==
  /\ today < MaxDay
  /\ today' = today + 1
  /\ UNCHANGED <<db, session, last>>

\* The open transactions of one handler, and session management.
InFlight(kind) == {tx \in BagToSet(session) : tx.kind = kind}

CountInFlight(kind) ==
  BagCardinality([tx \in InFlight(kind) |-> session[tx]])

Open(tx) ==
  /\ BagCardinality(session) < MaxInFlight
  /\ session' = session (+) SetToBag({tx})

Close(tx) == session' = session (-) SetToBag({tx})

\* ------------------------------------------------------- register_student
RegisterForms ==
  [email : Emails, register_number : RegNos, branch : Branches,
   semester : Semesters, section : Sections]

\* What a response of register_student keeps of the form.
RegisterKey(form) == [branch |-> form.branch, semester |-> form.semester]

\* A faulty lookup: a reactivated stop record still closes the semester.
register_student_check_AnyStop(form) ==
  IF \E u \in users : u.email = form.email THEN "email_exists"
  ELSE IF \E s \in students : s.register_number = form.register_number
       THEN "register_number_exists"
  ELSE IF \E r \in stopped_semesters :
            r.branch = form.branch /\ r.semester = form.semester
       THEN "semester_closed"
  ELSE ""

\* The handler's three lookups; "" when the form passes them all.
register_student_check(form) ==
  IF \E u \in users : u.email = form.email THEN "email_exists"
  ELSE IF \E s \in students : s.register_number = form.register_number
       THEN "register_number_exists"
  ELSE IF ActiveStops(stopped_semesters, form.branch, form.semester) # {}
       THEN "semester_closed"
  ELSE ""

register_student_reject(form) ==
  /\ register_student_check(form) # ""
  /\ last' = [op |-> "register", code |-> register_student_check(form),
              req |-> RegisterKey(form)]
  /\ UNCHANGED <<db, today, session>>

register_student_begin(form) ==
  /\ Cardinality(students) + CountInFlight("register") < MaxStudents
  /\ register_student_check(form) = ""
  /\ Open([kind |-> "register", form |-> form, day |-> today])
  /\ UNCHANGED <<db, today, last>>

\* The Student row the handler builds for the user row `user_id`.
NewStudent(tx, id, user_id) ==
  [id |-> id, user_id |-> user_id,
   register_number |-> tx.form.register_number,
   branch |-> tx.form.branch, current_semester |-> tx.form.semester,
   section |-> tx.form.section, semester_start_date |-> tx.day,
   is_semester_active |-> TRUE]

\* db.session.commit(): the unique columns users.email and
\* students.register_number refuse a duplicate (then the handler rolls back).
register_student_commit(tx) ==
  LET user_id == NextId(users)
  IN /\ tx \in InFlight("register")
     /\ ~ \E u \in users : u.email = tx.form.email
     /\ ~ \E s \in students : s.register_number = tx.form.register_number
     /\ users' = users \cup
                   {[id |-> user_id, email |-> tx.form.email, role |-> "student"]}
     /\ students' = students \cup {NewStudent(tx, NextId(students), user_id)}
     /\ Close(tx)
     /\ last' = [op |-> "register", code |-> "ok", req |-> RegisterKey(tx.form)]
     /\ UNCHANGED <<stopped_semesters, semester_history, attendance,
                    teacher_attendance, admin_logs, today>>

register_student_rollback(tx) ==
  /\ tx \in InFlight("register")
  /\ Close(tx)
  /\ last' = [op |-> "register", code |-> "failed",
              req |-> RegisterKey(tx.form)]
  /\ UNCHANGED <<db, today>>

\* ---------------------------------------------------- admin_stop_semester
StopForms == [branch : Branches, semester : Semesters]

\* A faulty archive: the counting window ends the day before the stop.
HistoryOf_BeforeStopDay(att, student, day, admin) ==
  LET sem_data == get_comprehensive_attendance(
                    att, student, student.semester_start_date, day - 1)
  IN [student_id |-> student.id,
      semester_number |-> student.current_semester,
      section |-> student.section,
      start_date |-> student.semester_start_date,
      end_date |-> day,
      total_theory_classes |-> sem_data.theory_total,
      present_theory_classes |-> sem_data.theory_present,
      total_lab_classes |-> sem_data.practical_total,
      present_lab_classes |-> sem_data.practical_present,
      attendance_percentage |-> sem_data.overall_percentage,
      stopped_by_admin_id |-> admin,
      stopped_at |-> day]

\* The SemesterHistory row (without its id) the loop builds for `student`.
HistoryOf(att, student, day, admin) ==
  LET sem_data == get_comprehensive_attendance(
                    att, student, student.semester_start_date, day)
  IN [student_id |-> student.id,
      semester_number |-> student.current_semester,
      section |-> student.section,
      start_date |-> student.semester_start_date,
      end_date |-> day,
      total_theory_classes |-> sem_data.theory_total,
      present_theory_classes |-> sem_data.theory_present,
      total_lab_classes |-> sem_data.practical_total,
      present_lab_classes |-> sem_data.practical_present,
      attendance_percentage |-> sem_data.overall_percentage,
      stopped_by_admin_id |-> admin,
      stopped_at |-> day]

StudentsToStop(form) ==
  {s \in students : /\ s.branch = form.branch
                    /\ s.current_semester = form.semester
                    /\ s.is_semester_active}

admin_stop_semester_reject(form) ==
  /\ ActiveStops(stopped_semesters, form.branch, form.semester) # {}
  /\ last' = [op |-> "stop", code |-> "already_stopped", req |-> form]
  /\ UNCHANGED <<db, today, session>>

admin_stop_semester_begin(form) ==
  /\ Cardinality(stopped_semesters) + CountInFlight("stop") < MaxStops
  /\ ActiveStops(stopped_semesters, form.branch, form.semester) = {}
  /\ Open([kind |-> "stop", form |-> form, day |-> today,
        history |-> {HistoryOf(attendance, s, today, ADMIN_USER_ID) :
                       s \in StudentsToStop(form)}])
  /\ UNCHANGED <<db, today, last>>

Rank(x, S) == Cardinality({y \in S : y < x})

\* The rows of `pending` with the ids the table's counter gives them.
WithIds(pending, table) ==
  LET ids == {h.student_id : h \in pending}
  IN {[h EXCEPT !.id = NextId(table) + Rank(h.student_id, ids)] :
        h \in {[id |-> 0] @@ p : p \in pending}}

StopRecord(tx, id) ==
  [id |-> id, branch |-> tx.form.branch, semester |-> tx.form.semester,
   stopped_by |-> ADMIN_USER_ID, stopped_at |-> tx.day, is_active |-> TRUE]

Deactivate(studs, ids) ==
  {IF s.id \in ids THEN [s EXCEPT !.is_semester_active = FALSE] ELSE s :
     s \in studs}

\* A faulty commit: the archive of the semester is rebuilt from this stop.
admin_stop_semester_commit_RebuildsArchive(tx) ==
  /\ tx \in InFlight("stop")
  /\ stopped_semesters' = stopped_semesters \cup
                            {StopRecord(tx, NextId(stopped_semesters))}
  /\ semester_history' =
       {h \in semester_history : h.semester_number # tx.form.semester}
       \cup WithIds(tx.history, {})
  /\ students' = Deactivate(students, {h.student_id : h \in tx.history})
  /\ admin_logs' = Append(admin_logs,
       [admin_id |-> ADMIN_USER_ID,
        action |-> <<"Stopped", tx.form.semester, tx.form.branch>>])
  /\ Close(tx)
  /\ last' = [op |-> "stop", code |-> "ok", req |-> tx.form]
  /\ UNCHANGED <<users, attendance, teacher_attendance, today>>

admin_stop_semester_commit(tx) ==
  /\ tx \in InFlight("stop")
  /\ stopped_semesters' = stopped_semesters \cup
                            {StopRecord(tx, NextId(stopped_semesters))}
  /\ semester_history' = semester_history \cup
                           WithIds(tx.history, semester_history)
  /\ students' = Deactivate(students, {h.student_id : h \in tx.history})
  /\ admin_logs' = Append(admin_logs,
       [admin_id |-> ADMIN_USER_ID,
        action |-> <<"Stopped", tx.form.semester, tx.form.branch>>])
  /\ Close(tx)
  /\ last' = [op |-> "stop", code |-> "ok", req |-> tx.form]
  /\ UNCHANGED <<users, attendance, teacher_attendance, today>>

\* A faulty failure path: the stop record added before the failure stays.
admin_stop_semester_rollback_KeepsRecord(tx) ==
  /\ tx \in InFlight("stop")
  /\ stopped_semesters' = stopped_semesters \cup
                            {StopRecord(tx, NextId(stopped_semesters))}
  /\ Close(tx)
  /\ last' = [op |-> "stop", code |-> "failed", req |-> tx.form]
  /\ UNCHANGED <<users, students, semester_history, attendance,
                 teacher_attendance, admin_logs, today>>

admin_stop_semester_rollback(tx) ==
  /\ tx \in InFlight("stop")
  /\ Close(tx)
  /\ last' = [op |-> "stop", code |-> "failed", req |-> tx.form]
  /\ UNCHANGED <<db, today>>

\* ---------------------------------------------- admin_reactivate_semester
admin_reactivate_semester_404(stop_id) ==
  /\ ~ \E r \in stopped_semesters : r.id = stop_id
  /\ last' = [op |-> "reactivate", code |-> "not_found", req |-> stop_id]
  /\ UNCHANGED <<db, today, session>>

\* A faulty reactivation: the students of the pair are made active again.
admin_reactivate_semester_RestoresStudents(stop_id) ==
  \E r \in stopped_semesters :
    /\ r.id = stop_id
    /\ Len(admin_logs) < MaxLog
    /\ stopped_semesters' = (stopped_semesters \ {r}) \cup
                               {[r EXCEPT !.is_active = FALSE]}
    /\ students' =
         {IF s.branch = r.branch /\ s.current_semester = r.semester
          THEN [s EXCEPT !.is_semester_active = TRUE] ELSE s : s \in students}
    /\ admin_logs' = Append(admin_logs,
         [admin_id |-> ADMIN_USER_ID,
          action |-> <<"Reactivated", r.semester, r.branch>>])
    /\ last' = [op |-> "reactivate", code |-> "ok", req |-> stop_id]
    /\ UNCHANGED <<users, semester_history, attendance,
                   teacher_attendance, today, session>>

admin_reactivate_semester(stop_id) ==
  \E r \in stopped_semesters :
    /\ r.id = stop_id
    /\ Len(admin_logs) < MaxLog
    /\ stopped_semesters' = (stopped_semesters \ {r}) \cup
                               {[r EXCEPT !.is_active = FALSE]}
    /\ admin_logs' = Append(admin_logs,
         [admin_id |-> ADMIN_USER_ID,
          action |-> <<"Reactivated", r.semester, r.branch>>])
    /\ last' = [op |-> "reactivate", code |-> "ok", req |-> stop_id]
    /\ UNCHANGED <<users, students, semester_history, attendance,
                   teacher_attendance, today, session>>

\* ------------------------------------------------------ student_dashboard
student_dashboard(student) ==
  LET semester_stopped ==
        is_semester_stopped(stopped_semesters, student.branch,
                            student.current_semester)
  IN /\ student \in students
     /\ IF semester_stopped /\ student.is_semester_active
        THEN students' = Deactivate(students, {student.id})
        ELSE UNCHANGED students
     /\ last' = [op |-> "dashboard", code |-> "ok", req |-> student.id]
     /\ UNCHANGED <<users, stopped_semesters, semester_history, attendance,
                    teacher_attendance, admin_logs, today, session>>

\* ------------------------------------------------ mark_teacher_attendance
None == <<>>

\* What the teacher's page offered when the request was sent (the dashboard
\* renders "Check In" with no record for the day, "Check Out" with one): the
\* request body carries the coordinates only.
Buttons == {"Check In", "Check Out"}

TeacherRequests ==
  [teacher : TeacherIds, button : Buttons, latitude : Coords,
   longitude : Coords]

TeacherKey(req) == [teacher |-> req.teacher, button |-> req.button]

TeacherToday(teacher) ==
  {r \in teacher_attendance : r.teacher_id = teacher /\ r.date = today}

\* A faulty check: a check-in is accepted wherever it comes from.
mark_teacher_attendance_check_SkipsLocation(req) ==
  IF req.latitude = "none" \/ req.longitude = "none" THEN "location_required"
  ELSE IF TeacherToday(req.teacher) # {}
       THEN IF \E r \in TeacherToday(req.teacher) : r.check_out = None
            THEN "" ELSE "already_checked_out"
  ELSE ""

\* The returns that write nothing; "" when the handler goes on to commit.
mark_teacher_attendance_check(req) ==
  IF req.latitude = "none" \/ req.longitude = "none" THEN "location_required"
  ELSE IF TeacherToday(req.teacher) # {}
       THEN IF \E r \in TeacherToday(req.teacher) : r.check_out = None
            THEN "" ELSE "already_checked_out"
  ELSE IF ~ verify_location(req.latitude, req.longitude)
       THEN "outside_premises"
  ELSE ""

mark_teacher_attendance_reject(req) ==
  /\ mark_teacher_attendance_check(req) # ""
  /\ last' = [op |-> "teacher", code |-> mark_teacher_attendance_check(req),
              req |-> TeacherKey(req)]
  /\ UNCHANGED <<db, today, session>>

\* existing = ...first(): any one of the day's rows of the teacher.
mark_teacher_attendance_begin(req) ==
  /\ mark_teacher_attendance_check(req) = ""
  /\ \/ /\ TeacherToday(req.teacher) = {}
        /\ Open([kind |-> "teacher", req |-> req, day |-> today,
              existing |-> None])
     \/ \E r \in TeacherToday(req.teacher) :
          /\ r.check_out = None
          /\ Open([kind |-> "teacher", req |-> req, day |-> today,
                existing |-> <<r.id>>])
  /\ UNCHANGED <<db, today, last>>

NewTeacherAttendance(tx, id) ==
  [id |-> id, teacher_id |-> tx.req.teacher, date |-> tx.day,
   check_in |-> <<tx.day>>, check_out |-> None,
   latitude |-> tx.req.latitude, longitude |-> tx.req.longitude,
   location_verified |-> TRUE, status |-> "present"]

CheckOut(rows, id, day) ==
  {IF r.id = id THEN [r EXCEPT !.check_out = <<day>>] ELSE r : r \in rows}

mark_teacher_attendance_commit(tx) ==
  /\ tx \in InFlight("teacher")
  /\ IF tx.existing = None
     THEN /\ teacher_attendance' = teacher_attendance \cup
               {NewTeacherAttendance(tx, NextId(teacher_attendance))}
          /\ last' = [op |-> "teacher", code |-> "check_in",
                  req |-> TeacherKey(tx.req)]
     ELSE /\ teacher_attendance' =
               CheckOut(teacher_attendance, tx.existing[1], tx.day)
          /\ last' = [op |-> "teacher", code |-> "check_out",
                  req |-> TeacherKey(tx.req)]
  /\ Close(tx)
  /\ UNCHANGED <<users, students, stopped_semesters, semester_history,
                 attendance, admin_logs, today>>

mark_teacher_attendance_rollback(tx) ==
  /\ tx \in InFlight("teacher")
  /\ Close(tx)
  /\ last' = [op |-> "teacher", code |-> "failed", req |-> TeacherKey(tx.req)]
  /\ UNCHANGED <<db, today>>

\* ------------------------------------------------ mark_student_attendance
StudentIds == 1..MaxStudents

MarkRequests ==
  [teacher : TeacherIds, student_id : StudentIds,
   periods : SUBSET Periods \ {{}}, status : Statuses, subject : Subjects,
   attendance_type : AttendanceTypes]

MarkKey(req) == [student_id |-> req.student_id]

mark_student_attendance_check(req) ==
  IF ~ \E r \in TeacherToday(req.teacher) : r.check_in # None
  THEN "mark_your_attendance_first"
  ELSE IF ~ \E s \in students : s.id = req.student_id
       THEN "student_not_found"
  ELSE IF \E s \in students :
            /\ s.id = req.student_id
            /\ \/ is_semester_stopped(stopped_semesters, s.branch,
                                       s.current_semester)
               \/ ~ s.is_semester_active
       THEN "semester_closed"
  ELSE ""

mark_student_attendance_reject(req) ==
  /\ mark_student_attendance_check(req) # ""
  /\ last' = [op |-> "mark", code |-> mark_student_attendance_check(req),
              req |-> MarkKey(req), mail |-> "none", updated |-> 0]
  /\ UNCHANGED <<db, today, session>>

\* A faulty lookup: the row of the student and period on any date.
ExistingFor_AnyDate(req, period) ==
  {a \in attendance : /\ a.student_id = req.student_id
                      /\ a.period = period}

ExistingFor(req, period) ==
  {a \in attendance : /\ a.student_id = req.student_id
                      /\ a.date = today
                      /\ a.period = period}

\* The inserts the open mark transactions will make.
PendingInserts ==
  LET n[S \in SUBSET InFlight("mark")] ==
        IF S = {} THEN 0
        ELSE LET tx == CHOOSE x \in S : TRUE
             IN n[S \ {tx}] +
                session[tx] * Cardinality({p \in DOMAIN tx.existing :
                                             tx.existing[p] = None})
  IN n[InFlight("mark")]

\* The loop's lookups: per period, one of the rows found (first()), or None.
mark_student_attendance_begin(req) ==
  /\ mark_student_attendance_check(req) = ""
  /\ \E existing \in [req.periods ->
                        {None} \cup {<<a.id>> : a \in attendance}] :
       /\ \A p \in req.periods :
            IF ExistingFor(req, p) = {} THEN existing[p] = None
            ELSE \E a \in ExistingFor(req, p) : existing[p] = <<a.id>>
       /\ Cardinality(attendance) + PendingInserts +
            Cardinality({p \in req.periods : existing[p] = None}) <= MaxAtt
       /\ Open([kind |-> "mark", req |-> req, day |-> today,
             semester |-> (CHOOSE s \in students :
                             s.id = req.student_id).current_semester,
             existing |-> existing])
  /\ UNCHANGED <<db, today, last>>

NewAttendance(tx, period, id) ==
  [id |-> id, student_id |-> tx.req.student_id, date |-> tx.day,
   period |-> period, status |-> tx.req.status, marked_by |-> tx.req.teacher,
   marked_at |-> tx.day, subject |-> tx.req.subject,
   semester_at_time |-> tx.semester,
   attendance_type |-> tx.req.attendance_type]

UpdateAttendance(a, tx) ==
  [a EXCEPT !.status = tx.req.status, !.marked_by = tx.req.teacher,
            !.marked_at = tx.day, !.subject = tx.req.subject,
            !.attendance_type = tx.req.attendance_type]

\* A faulty write: every marked period is inserted, found or not.
MarkWrites_InsertOnly(att, tx) ==
  att \cup {NewAttendance(tx, p, NextId(att) + Rank(p, DOMAIN tx.existing)) :
              p \in DOMAIN tx.existing}

\* The table after the transaction's updates and inserts.
MarkWrites(att, tx) ==
  LET updated == {tx.existing[p][1] :
                    p \in {q \in DOMAIN tx.existing : tx.existing[q] # None}}
      inserted == {p \in DOMAIN tx.existing : tx.existing[p] = None}
  IN {IF a.id \in updated THEN UpdateAttendance(a, tx) ELSE a : a \in att}
     \cup {NewAttendance(tx, p, NextId(att) + Rank(p, inserted)) :
             p \in inserted}

\* A faulty test: the theory percentage decides, not the overall one.
LowAttendance_TheoryOnly(att, student_id, day) ==
  \E s \in students :
    /\ s.id = student_id
    /\ get_comprehensive_attendance(att, s, s.semester_start_date, day)
         .theory_percentage < LOW_ATTENDANCE

\* After the commit the handler recomputes the student's percentage; below
\* 75 it calls the notifier.
LowAttendance(att, student_id, day) ==
  \E s \in students :
    /\ s.id = student_id
    /\ get_comprehensive_attendance(att, s, s.semester_start_date, day)
         .overall_percentage < LOW_ATTENDANCE

\* mail.send(msg) either delivers or raises.
MailOutcomes == {"delivers", "raises"}

\* A faulty notifier: no try/except around the send.
send_low_attendance_email_Unguarded(configured, outcome) ==
  IF ~ configured THEN "skipped"
  ELSE IF outcome = "raises" THEN "raised" ELSE "sent"

\* What the notifier does, given whether app.config['MAIL_USERNAME'] is set
\* and what the send does: "raised" is an exception leaving the function.
send_low_attendance_email(configured, outcome) ==
  IF ~ configured THEN "skipped"
  ELSE IF outcome = "raises" THEN "logged" ELSE "sent"

\* The number of rows the request found and updated.
Updated(tx) == Cardinality({p \in DOMAIN tx.existing : tx.existing[p] # None})

\* db.session.commit(), then the percentage and the notifier inside the same
\* try: an exception after the commit answers 500 with the rows committed.
mark_student_attendance_commit(tx, configured, outcome) ==
  LET mail == IF LowAttendance(attendance', tx.req.student_id, today)
              THEN send_low_attendance_email(configured, outcome)
              ELSE "none"
  IN /\ tx \in InFlight("mark")
     /\ attendance' = MarkWrites(attendance, tx)
     /\ Close(tx)
     /\ last' = [op |-> "mark",
                 code |-> IF mail = "raised" THEN "failed" ELSE "ok",
                 req |-> MarkKey(tx.req), mail |-> mail,
                 updated |-> Updated(tx)]
     /\ UNCHANGED <<users, students, stopped_semesters, semester_history,
                    teacher_attendance, admin_logs, today>>

mark_student_attendance_rollback(tx) ==
  /\ tx \in InFlight("mark")
  /\ Close(tx)
  /\ last' = [op |-> "mark", code |-> "failed", req |-> MarkKey(tx.req),
              mail |-> "none", updated |-> 0]
  /\ UNCHANGED <<db, today>>

\* ------------------------------------------------------------------- Next
\* Every handler, every input.
Next ==
  \/ Tick
  \/ \E form \in RegisterForms : register_student_reject(form)
  \/ \E form \in RegisterForms : register_student_begin(form)
  \/ \E tx \in InFlight("register") : register_student_commit(tx)
  \/ \E tx \in InFlight("register") : register_student_rollback(tx)
  \/ \E form \in StopForms : admin_stop_semester_reject(form)
  \/ \E form \in StopForms : admin_stop_semester_begin(form)
  \/ \E tx \in InFlight("stop") : admin_stop_semester_commit(tx)
  \/ \E tx \in InFlight("stop") : admin_stop_semester_rollback(tx)
  \/ \E stop_id \in 1..MaxStops : admin_reactivate_semester_404(stop_id)
  \/ \E stop_id \in 1..MaxStops : admin_reactivate_semester(stop_id)
  \/ \E student \in students : student_dashboard(student)
  \/ \E req \in TeacherRequests : mark_teacher_attendance_reject(req)
  \/ \E req \in TeacherRequests : mark_teacher_attendance_begin(req)
  \/ \E tx \in InFlight("teacher") : mark_teacher_attendance_commit(tx)
  \/ \E tx \in InFlight("teacher") : mark_teacher_attendance_rollback(tx)
  \/ \E req \in MarkRequests : mark_student_attendance_reject(req)
  \/ \E req \in MarkRequests : mark_student_attendance_begin(req)
  \/ \E tx \in InFlight("mark"), configured \in BOOLEAN,
          outcome \in MailOutcomes :
       mark_student_attendance_commit(tx, configured, outcome)
  \/ \E tx \in InFlight("mark") : mark_student_attendance_rollback(tx)

Spec == Init /\ [][Next]_vars

\* The semester lifecycle: registration, stop, reactivation, dashboard.
NextLifecycle ==
  \/ Tick
  \/ \E form \in RegisterForms : register_student_reject(form)
  \/ \E form \in RegisterForms : register_student_begin(form)
  \/ \E tx \in InFlight("register") : register_student_commit(tx)
  \/ \E tx \in InFlight("register") : register_student_rollback(tx)
  \/ \E form \in StopForms : admin_stop_semester_reject(form)
  \/ \E form \in StopForms : admin_stop_semester_begin(form)
  \/ \E tx \in InFlight("stop") : admin_stop_semester_commit(tx)
  \/ \E tx \in InFlight("stop") : admin_stop_semester_rollback(tx)
  \/ \E stop_id \in 1..MaxStops : admin_reactivate_semester_404(stop_id)
  \/ \E stop_id \in 1..MaxStops : admin_reactivate_semester(stop_id)
  \/ \E student \in students : student_dashboard(student)

SpecLifecycle == Init /\ [][NextLifecycle]_vars

\* Teacher check-in and check-out.
NextTeacher ==
  \/ Tick
  \/ \E req \in TeacherRequests : mark_teacher_attendance_reject(req)
  \/ \E req \in TeacherRequests : mark_teacher_attendance_begin(req)
  \/ \E tx \in InFlight("teacher") : mark_teacher_attendance_commit(tx)
  \/ \E tx \in InFlight("teacher") : mark_teacher_attendance_rollback(tx)

SpecTeacher == Init /\ [][NextTeacher]_vars

\* ---------------------------------------------------------------------
\* The specifications below restrict the requests that arrive, not what a
\* handler does with them.  Registrations and teacher check-ins arrive while
\* no other request is in flight (Quiet), every teacher checks in from the
\* reference point, and every student registers with an email of their own.
Quiet == session = EmptyBag

NoSetup == InFlight("register") \cup InFlight("teacher") = {}

CheckInRequests ==
  {req \in TeacherRequests : /\ req.button = "Check In"
                             /\ req.latitude = "ref"
                             /\ req.longitude = "ref"}

EnrolForms ==
  {form \in RegisterForms :
     (form.email = "s1@svist") <=> (form.register_number = "R1")}

\* Marking attendance, concurrently with other marks and with a stop, for
\* the students of one branch.
NextMark ==
  \/ \E req \in CheckInRequests :
       /\ Quiet
       /\ TeacherToday(req.teacher) = {}
       /\ mark_teacher_attendance_begin(req)
  \/ \E tx \in InFlight("teacher") : mark_teacher_attendance_commit(tx)
  \/ \E form \in EnrolForms :
       Quiet /\ form.branch = "CSE" /\ register_student_begin(form)
  \/ \E tx \in InFlight("register") : register_student_commit(tx)
  \/ \E form \in StopForms :
       NoSetup /\ form.branch = "CSE" /\ admin_stop_semester_begin(form)
  \/ \E tx \in InFlight("stop") : admin_stop_semester_commit(tx)
  \/ \E req \in MarkRequests : mark_student_attendance_reject(req)
  \/ \E req \in MarkRequests :
       NoSetup /\ mark_student_attendance_begin(req)
  \/ \E tx \in InFlight("mark"), configured \in BOOLEAN,
          outcome \in MailOutcomes :
       mark_student_attendance_commit(tx, configured, outcome)
  \/ \E tx \in InFlight("mark") : mark_student_attendance_rollback(tx)

SpecMark == Init /\ [][NextMark]_vars

\* Archiving: one stop of either branch, with the clock advancing between
\* requests, concurrent with one mark at a time; MAIL_USERNAME is not set
\* (the value src/app.py:67 reads when the environment defines nothing).
NextArchive ==
  \/ Quiet /\ Tick
  \/ \E req \in CheckInRequests :
       /\ Quiet
       /\ TeacherToday(req.teacher) = {}
       /\ mark_teacher_attendance_begin(req)
  \/ \E tx \in InFlight("teacher") : mark_teacher_attendance_commit(tx)
  \/ \E form \in EnrolForms : Quiet /\ register_student_begin(form)
  \/ \E tx \in InFlight("register") : register_student_commit(tx)
  \/ \E form \in StopForms :
       /\ NoSetup
       /\ stopped_semesters = {} /\ InFlight("stop") = {}
       /\ admin_stop_semester_begin(form)
  \/ \E tx \in InFlight("stop") : admin_stop_semester_commit(tx)
  \/ \E req \in MarkRequests :
       /\ NoSetup
       /\ InFlight("mark") = {}
       /\ mark_student_attendance_begin(req)
  \/ \E tx \in InFlight("mark") :
       mark_student_attendance_commit(tx, FALSE, "delivers")

SpecArchive == Init /\ [][NextArchive]_vars

\* One semester of one branch through its whole life: registration (also
\* while a stop is in flight), marks one at a time, stop, reactivation and
\* dashboard visits, with the clock advancing between requests.
NextSemester ==
  \/ Quiet /\ Tick
  \/ \E req \in CheckInRequests :
       /\ Quiet
       /\ TeacherToday(req.teacher) = {}
       /\ mark_teacher_attendance_begin(req)
  \/ \E tx \in InFlight("teacher") : mark_teacher_attendance_commit(tx)
  \/ \E form \in EnrolForms :
       NoSetup /\ form.branch = "CSE" /\ register_student_begin(form)
  \/ \E tx \in InFlight("register") : register_student_commit(tx)
  \/ \E form \in StopForms :
       /\ InFlight("teacher") = {} /\ InFlight("stop") = {}
       /\ form.branch = "CSE"
       /\ admin_stop_semester_begin(form)
  \/ \E tx \in InFlight("stop") : admin_stop_semester_commit(tx)
  \/ \E stop_id \in 1..MaxStops : admin_reactivate_semester(stop_id)
  \/ \E student \in students : student_dashboard(student)
  \/ \E req \in MarkRequests :
       /\ NoSetup /\ InFlight("mark") = {}
       /\ req.attendance_type = "theory"
       /\ mark_student_attendance_begin(req)
  \/ \E tx \in InFlight("mark") :
       mark_student_attendance_commit(tx, FALSE, "delivers")

SpecSemester == Init /\ [][NextSemester]_vars

\* ------------------------------------------------ student_semester_report
\* The page shows get_comprehensive_attendance over the default range: from
\* the student's semester start to the day of the request.
student_semester_report(student) ==
  /\ student \in students
  /\ last' = [op |-> "report", code |-> "ok", req |-> student.id,
              data |-> get_comprehensive_attendance(
                         attendance, student, student.semester_start_date,
                         today)]
  /\ UNCHANGED <<db, today, session>>

\* The reports over every attendance table of at most MaxRows rows.  The
\* handler stores attendance_type, status and semester_at_time as sent, so a
\* table holds any of them.
ReportTypes == {"theory", "lab", "workshop", "seminar"}

ReportSemesters == {3, 4}

ReportRows(id) ==
  {[id |-> id, student_id |-> sid, date |-> d, period |-> id,
    status |-> st, marked_by |-> 1, marked_at |-> d, subject |-> "Maths",
    semester_at_time |-> sem, attendance_type |-> ty] :
     sid \in StudentIds, d \in Days, st \in Statuses,
     sem \in ReportSemesters, ty \in ReportTypes}

ReportTables ==
  UNION {{{row[i] : i \in 1..n} : row \in [1..n -> UNION {ReportRows(i) : i \in 1..n}]}
           : n \in 0..MaxRows}

ReportStudent(id) ==
  [id |-> id, user_id |-> id + 1,
   register_number |-> IF id = 1 THEN "R1" ELSE "R2",
   branch |-> "CSE", current_semester |-> 3, section |-> "A",
   semester_start_date |-> IF id = 1 THEN 1 ELSE MaxDay,
   is_semester_active |-> TRUE]

InitReport ==
  /\ users = {[id |-> ADMIN_USER_ID, email |-> "admin@svist.edu.in",
                role |-> "admin"],
              [id |-> 2, email |-> "s1@svist", role |-> "student"],
              [id |-> 3, email |-> "s2@svist", role |-> "student"]}
  /\ students = {ReportStudent(1), ReportStudent(2)}
  /\ stopped_semesters = {}
  /\ semester_history = {}
  /\ attendance \in {t \in ReportTables :
                       \A a, b \in t : a.id = b.id => a = b}
  /\ teacher_attendance = {}
  /\ admin_logs = <<>>
  /\ today \in Days
  /\ session = EmptyBag
  /\ last = [op |-> "none", code |-> "none"]

NextReport ==
  \/ Tick
  \/ \E student \in students : student_semester_report(student)

SpecReport == InitReport /\ [][NextReport]_vars

\* ------------------------------------------------------------ the calendar
\* The days modelled are the last days of one year; day 1 is a Friday.
weekday(date) == (date + 3) % 7

\* The first and the last day of a month (see month_key).
MonthStart(month) == 2 * month

MonthEnd(month) == 2 * month + 1

Months == {month_key(d) : d \in Days}

\* ------------------------------------------------------ admin report slices
\* request.args: each filter is 'all' or a value, the semester as text.
SemesterArgs == {"all", "3"}

int(text) == CASE text = "3" -> 3 [] text = "4" -> 4

Slices ==
  [branch : Branches \cup {"all"}, semester : SemesterArgs,
   section : Sections \cup {"all"}]

\* The three optional filter_by calls of both rosters.
InSlice(s, branch, semester, section) ==
  /\ branch = "all" \/ s.branch = branch
  /\ semester = "all" \/ s.current_semester = int(semester)
  /\ section = "all" \/ s.section = section

\* The order of register numbers as strings.
RegisterRank(register_number) ==
  CASE register_number = "R1" -> 1 [] register_number = "R2" -> 2

\* query.order_by(Student.register_number.asc()).all()
OrderByRegisterNumber(query) ==
  CHOOSE seq \in [1..Cardinality(query) -> query] :
    /\ {seq[i] : i \in DOMAIN seq} = query
    /\ \A i, j \in DOMAIN seq :
         i < j => RegisterRank(seq[i].register_number)
                    <= RegisterRank(seq[j].register_number)

Theory(rows) == {a \in rows : a.attendance_type = "theory"}

Practical(rows) ==
  {a \in rows : a.attendance_type \in {"lab", "crt", "workshop"}}

\* ---------------------------------------------------- get_monthly_attendance
MonthlyRow(student, month) ==
  LET attendances == {a \in attendance : /\ a.student_id = student.id
                                         /\ a.date >= MonthStart(month)
                                         /\ a.date <= MonthEnd(month)}
      theory_present == Present(Theory(attendances))
      theory_total == Cardinality(Theory(attendances))
      practical_present == Present(Practical(attendances))
      practical_total == Cardinality(Practical(attendances))
  IN [student |-> student,
      theory_present |-> theory_present, theory_total |-> theory_total,
      practical_present |-> practical_present,
      practical_total |-> practical_total,
      overall_percentage |->
        Percentage(theory_present + practical_present,
                   theory_total + practical_total)]

get_monthly_attendance(branch, semester, section, month) ==
  LET query == {s \in students : /\ s.is_semester_active
                                 /\ InSlice(s, branch, semester, section)}
      listed == OrderByRegisterNumber(query)
  IN [i \in DOMAIN listed |-> MonthlyRow(listed[i], month)]

\* --------------------------------------------------- get_semester_attendance
\* The newest SemesterHistory row of the student and semester, or None.
LatestHistory(student) ==
  LET rows == {h \in semester_history :
                 /\ h.student_id = student.id
                 /\ h.semester_number = student.current_semester}
  IN IF rows = {} THEN None
     ELSE <<CHOOSE h \in rows : \A g \in rows : g.stopped_at <= h.stopped_at>>

\* What StoppedSemester...first() can return, per student of the list: an
\* active stop record of the student's pair, None when there is none.
FirstStops(listed) ==
  {first \in [{s.id : s \in listed} ->
                {None} \cup {<<r>> : r \in stopped_semesters}] :
     \A s \in listed :
       LET found == ActiveStops(stopped_semesters, s.branch,
                                s.current_semester)
       IN IF found = {} THEN first[s.id] = None
          ELSE \E r \in found : first[s.id] = <<r>>}

\* A faulty end date: the archive of a student is never consulted.
SemesterEnd_IgnoresHistory(student, stopped) ==
  IF stopped # None THEN stopped[1].stopped_at ELSE today

SemesterEnd(student, stopped) ==
  IF stopped # None THEN stopped[1].stopped_at
  ELSE IF ~ student.is_semester_active /\ LatestHistory(student) # None
       THEN LatestHistory(student)[1].end_date
  ELSE today

SemesterRow(student, stopped) ==
  LET start_date == student.semester_start_date
      end_date == SemesterEnd(student, stopped)
      attendances ==
        {a \in attendance : /\ a.student_id = student.id
                            /\ a.semester_at_time = student.current_semester
                            /\ a.date >= start_date
                            /\ a.date <= end_date}
      theory_present == Present(Theory(attendances))
      theory_total == Cardinality(Theory(attendances))
      practical_present == Present(Practical(attendances))
      practical_total == Cardinality(Practical(attendances))
      total_present == theory_present + practical_present
      total_classes == theory_total + practical_total
  IN [student |-> student,
      theory_present |-> theory_present, theory_total |-> theory_total,
      theory_percentage |-> Percentage(theory_present, theory_total),
      practical_present |-> practical_present,
      practical_total |-> practical_total,
      practical_percentage |->
        Percentage(practical_present, practical_total),
      total_present |-> total_present, total_classes |-> total_classes,
      overall_percentage |-> Percentage(total_present, total_classes),
      start_date |-> start_date, end_date |-> end_date,
      is_active |-> student.is_semester_active]

get_semester_attendance(branch, semester, section, first) ==
  LET query == {s \in students : InSlice(s, branch, semester, section)}
      listed == OrderByRegisterNumber(query)
  IN [i \in DOMAIN listed |-> SemesterRow(listed[i], first[listed[i].id])]

\* ---------------------------------------------- get_teacher_yearly_attendance
\* For a teacher registered in the year modelled: from the registration date
\* to the last day of the year.
YearEnd == MaxDay

get_teacher_yearly_attendance(teacher) ==
  LET start_date == teacher.registration_date
      end_date == YearEnd
      attendances == {r \in teacher_attendance :
                        /\ r.teacher_id = teacher.id
                        /\ r.date >= start_date /\ r.date <= end_date
                        /\ r.status = "present"}
      total_days == Cardinality(attendances)
      working_days ==
        Cardinality({d \in start_date..end_date : weekday(d) < 5})
  IN [start_date |-> start_date, end_date |-> end_date,
      total_days_present |-> total_days, working_days |-> working_days,
      percentage |-> Percentage(total_days, working_days)]

\* ------------------------------------------------------- the report pages
\* admin_student_reports with report_type 'monthly' and 'semester', and
\* teacher_yearly_report: each reads, and answers with the data.
admin_student_reports_monthly(slice, month) ==
  /\ last' = [op |-> "monthly", code |-> "ok", req |-> slice,
              month |-> month,
              data |-> get_monthly_attendance(slice.branch, slice.semester,
                                              slice.section, month)]
  /\ UNCHANGED <<db, today, session>>

admin_student_reports_semester(slice) ==
  \E first \in FirstStops({s \in students :
                             InSlice(s, slice.branch, slice.semester,
                                     slice.section)}) :
    /\ last' = [op |-> "semester", code |-> "ok", req |-> slice,
                data |-> get_semester_attendance(
                           slice.branch, slice.semester, slice.section,
                           first)]
    /\ UNCHANGED <<db, today, session>>

\* A teacher registers before checking in for the first time.
Teachers ==
  {t \in [id : TeacherIds, registration_date : Days] :
     /\ t.registration_date <= today
     /\ \A r \in teacher_attendance :
          r.teacher_id = t.id => t.registration_date <= r.date}

teacher_yearly_report(teacher) ==
  /\ teacher \in Teachers
  /\ last' = [op |-> "yearly", code |-> "ok", req |-> teacher,
              data |-> get_teacher_yearly_attendance(teacher)]
  /\ UNCHANGED <<db, today, session>>

\* The report pages, over one semester of one branch through its life: the
\* requests arrive one at a time, except that a registration can arrive
\* while a stop is in flight.  The admin asks for every student or for the
\* CSE semester 3 slice.
RosterSlices ==
  {slice \in Slices : \/ slice = [branch |-> "all", semester |-> "all",
                                  section |-> "all"]
                      \/ slice = [branch |-> "CSE", semester |-> "3",
                                  section |-> "A"]}

NextRoster ==
  \/ Quiet /\ Tick
  \/ \E req \in CheckInRequests :
       /\ Quiet
       /\ TeacherToday(req.teacher) = {}
       /\ mark_teacher_attendance_begin(req)
  \/ \E tx \in InFlight("teacher") : mark_teacher_attendance_commit(tx)
  \/ \E form \in EnrolForms :
       /\ InFlight("register") \cup InFlight("teacher")
            \cup InFlight("mark") = {}
       /\ form.branch = "CSE"
       /\ register_student_begin(form)
  \/ \E tx \in InFlight("register") : register_student_commit(tx)
  \/ \E form \in StopForms :
       Quiet /\ form.branch = "CSE" /\ admin_stop_semester_begin(form)
  \/ \E tx \in InFlight("stop") : admin_stop_semester_commit(tx)
  \/ \E stop_id \in 1..MaxStops : Quiet /\ admin_reactivate_semester(stop_id)
  \/ \E req \in MarkRequests : Quiet /\ mark_student_attendance_begin(req)
  \/ \E tx \in InFlight("mark") :
       mark_student_attendance_commit(tx, FALSE, "delivers")
  \/ \E slice \in RosterSlices, month \in Months :
       Quiet /\ admin_student_reports_monthly(slice, month)
  \/ \E slice \in RosterSlices :
       Quiet /\ admin_student_reports_semester(slice)
  \/ \E teacher \in Teachers : Quiet /\ teacher_yearly_report(teacher)

SpecRoster == Init /\ [][NextRoster]_vars

\* -------------------------------------------------- request bodies as sent
\* data.get('status', 'present') and data.get('attendance_type', 'theory')
\* are whatever the JSON body holds: the values of the page, or any other.
WireStatuses == Statuses \cup {"late"}

WireTypes == AttendanceTypes \cup {"seminar"}

WireMarkRequests ==
  [teacher : TeacherIds, student_id : StudentIds,
   periods : SUBSET Periods \ {{}}, status : WireStatuses,
   subject : Subjects, attendance_type : WireTypes]

\* Marks with any body, one request at a time, for the students of a branch.
NextWire ==
  \/ Quiet /\ Tick
  \/ \E req \in CheckInRequests :
       /\ Quiet
       /\ TeacherToday(req.teacher) = {}
       /\ mark_teacher_attendance_begin(req)
  \/ \E tx \in InFlight("teacher") : mark_teacher_attendance_commit(tx)
  \/ \E form \in EnrolForms :
       Quiet /\ form.branch = "CSE" /\ register_student_begin(form)
  \/ \E tx \in InFlight("register") : register_student_commit(tx)
  \/ \E req \in WireMarkRequests : Quiet /\ mark_student_attendance_begin(req)
  \/ \E tx \in InFlight("mark") :
       mark_student_attendance_commit(tx, FALSE, "delivers")

SpecWire == Init /\ [][NextWire]_vars

\* ====================================================================
\* Claims
\* ====================================================================

\* A request of `kind` leaves the session in this step (commit or rollback).
Closes(tx) == session' = session (-) SetToBag({tx})

\* A request enters the session in this step.
Opens(tx) == session' = session (+) SetToBag({tx})

SameKey(a, b) ==
  a.student_id = b.student_id /\ a.date = b.date /\ a.period = b.period

\* C1: the attendance table never holds more than one row for the same
\* (student, date, period), whatever the interleaving of mark requests.
C1_OneRowPerKey ==
  \A a, b \in attendance : SameKey(a, b) => a = b

\* C2: at most one active StoppedSemester row per (branch, semester) in
\* every reachable state, concurrent stop requests included.
C2_OneActiveStopPerPair ==
  \A branch \in Branches, semester \in Semesters :
    Cardinality(ActiveStops(stopped_semesters, branch, semester)) <= 1

InPair(s, branch, semester) ==
  s.branch = branch /\ s.current_semester = semester

\* The pending history of a stop request that has just read the database:
\* one row per active student of the pair, carrying the student's
\* get_comprehensive_attendance from semester start to the stop date.
C3_Snapshot(tx) ==
  LET read == {s \in students :
                 InPair(s, tx.form.branch, tx.form.semester)
                 /\ s.is_semester_active}
  IN /\ tx.day = today
     /\ {h.student_id : h \in tx.history} = {s.id : s \in read}
     /\ Cardinality(tx.history) = Cardinality(read)
     /\ \A h \in tx.history : \A s \in read :
          s.id = h.student_id =>
            LET g == get_comprehensive_attendance(
                       attendance, s, s.semester_start_date, today)
            IN /\ h.semester_number = s.current_semester
               /\ h.start_date = s.semester_start_date
               /\ h.end_date = today
               /\ h.total_theory_classes = g.theory_total
               /\ h.present_theory_classes = g.theory_present
               /\ h.total_lab_classes = g.practical_total
               /\ h.present_lab_classes = g.practical_present
               /\ h.attendance_percentage = g.overall_percentage

\* What the commit of that request leaves in the database.
C3_Committed(tx) ==
  LET ids == {h.student_id : h \in tx.history}
      added == semester_history' \ semester_history
  IN /\ \E r \in stopped_semesters' :
          /\ r \notin stopped_semesters
          /\ stopped_semesters' = stopped_semesters \cup {r}
          /\ r.is_active
          /\ r.branch = tx.form.branch /\ r.semester = tx.form.semester
          /\ r.stopped_at = tx.day
     /\ semester_history \subseteq semester_history'
     /\ Cardinality(added) = Cardinality(ids)
     /\ \A h \in tx.history :
          \E row \in added :
            /\ row.student_id = h.student_id
            /\ row.end_date = tx.day
            /\ [f \in DOMAIN h |-> row[f]] = h
     /\ students' =
          {IF s.id \in ids THEN [s EXCEPT !.is_semester_active = FALSE] ELSE s :
             s \in students}
     /\ \A s \in students :
          ~ InPair(s, tx.form.branch, tx.form.semester) => s \in students'

\* C3: a successful stop creates one active stop record for the pair; every
\* student of the pair who was active when the stop read the database ends
\* inactive with exactly one new SemesterHistory row whose end date is the
\* stop date and whose totals, presents and percentage are the student's
\* get_comprehensive_attendance at that moment; other students are unchanged.
C3_StopArchivesActiveStudents ==
  [][ /\ \A tx \in BagToSet(session') :
           (tx.kind = "stop" /\ Opens(tx)) => C3_Snapshot(tx)
      /\ \A tx \in InFlight("stop") :
           (Closes(tx) /\ last'.op = "stop" /\ last'.code = "ok")
             => C3_Committed(tx) ]_vars

\* A stop has committed that archived a student with marked periods while a
\* student of the other branch stays active.
C3_Witness ==
  /\ last.op = "stop" /\ last.code = "ok"
  /\ \E h \in semester_history :
       /\ h.total_theory_classes + h.total_lab_classes > 0
       /\ h.present_theory_classes + h.present_lab_classes > 0
       /\ \E s \in students : s.id = h.student_id /\ ~ s.is_semester_active
  /\ \E s \in students :
       /\ ~ InPair(s, last.req.branch, last.req.semester)
       /\ s.is_semester_active

\* C4: a reactivation changes only the target record's is_active (plus one
\* admin log); archived students stay inactive, so right after it no student
\* of the pair is active: the only active ones are registered later.
C4_ReactivationKeepsArchive ==
  [][ \A r \in stopped_semesters :
        (r.is_active /\ [r EXCEPT !.is_active = FALSE] \in stopped_semesters')
          => /\ stopped_semesters' =
                  (stopped_semesters \ {r}) \cup {[r EXCEPT !.is_active = FALSE]}
             /\ students' = students
             /\ semester_history' = semester_history
             /\ Len(admin_logs') = Len(admin_logs) + 1
             /\ \A s \in students' :
                  InPair(s, r.branch, r.semester) => ~ s.is_semester_active
    ]_vars

\* C5: whenever no stop request is mid-transaction, an active stop record for
\* a pair means no student of that pair is active.
C5_StoppedMeansInactive ==
  InFlight("stop") = {} =>
    \A r \in stopped_semesters : \A s \in students :
      (r.is_active /\ InPair(s, r.branch, r.semester))
        => ~ s.is_semester_active

\* What a stop request that commits writes, all of it in the one step.
C6_WholeStop(tx) ==
  LET ids == {h.student_id : h \in tx.history}
  IN /\ Cardinality(stopped_semesters' \ stopped_semesters) = 1
     /\ \A r \in stopped_semesters' \ stopped_semesters :
          r.is_active /\ r.branch = tx.form.branch
                      /\ r.semester = tx.form.semester
     /\ {h.student_id : h \in semester_history' \ semester_history} = ids
     /\ \A s \in students' : s.id \in ids => ~ s.is_semester_active
     /\ Len(admin_logs') = Len(admin_logs) + 1
     /\ admin_logs'[Len(admin_logs')].action[1] = "Stopped"

\* C6: the stop is all-or-nothing. A stop request that fails before its
\* commit leaves every table as it was; a step that adds a stop record, a
\* history row or a "Stopped" log is the commit of one stop request and adds
\* the record, the row and the flag of every student it read, and the log.
C6_StopAllOrNothing ==
  [][ /\ \A tx \in InFlight("stop") :
           (Closes(tx) /\ last'.op = "stop" /\ last'.code = "failed")
             => db' = db
      /\ ( \/ \E r \in stopped_semesters' :
                 \A q \in stopped_semesters : q.id # r.id
           \/ semester_history' # semester_history
           \/ /\ Len(admin_logs') > Len(admin_logs)
              /\ admin_logs'[Len(admin_logs')].action[1] = "Stopped" )
           => \E tx \in InFlight("stop") :
                /\ Closes(tx)
                /\ last'.op = "stop" /\ last'.code = "ok"
                /\ C6_WholeStop(tx) ]_vars

\* A stop request that had read an active student has failed and nothing of
\* it is in the database.
C6_Witness ==
  /\ last.op = "stop" /\ last.code = "failed"
  /\ \E s \in students :
       InPair(s, last.req.branch, last.req.semester) /\ s.is_semester_active
  /\ stopped_semesters = {} /\ semester_history = {} /\ admin_logs = <<>>
  /\ InFlight("stop") = {}

\* C7: every inactive student has a SemesterHistory row for the student's
\* current semester.
C7_InactiveHasHistory ==
  \A s \in students :
    ~ s.is_semester_active =>
      \E h \in semester_history :
        h.student_id = s.id /\ h.semester_number = s.current_semester

\* C8: a mark request changes the attendance table only if, when its write
\* commits, the teacher has checked in that day, the student is active and no
\* active stop record exists for the student's branch and semester.
C8_MarkWritesOnlyWhenAllowed ==
  [][ \A tx \in InFlight("mark") :
        (Closes(tx) /\ attendance' # attendance)
          => /\ \E t \in teacher_attendance :
                  t.teacher_id = tx.req.teacher /\ t.date = today
             /\ \E s \in students :
                  /\ s.id = tx.req.student_id
                  /\ s.is_semester_active
                  /\ ActiveStops(stopped_semesters, s.branch,
                                 s.current_semester) = {} ]_vars

\* C9: a registration into a pair with an active stop record is rejected and
\* creates no User or Student; with no active stop record (the record
\* reactivated) it is not rejected as closed, and the student it creates is
\* active with semester_start_date the day of the registration.
C9_RegistrationFollowsStop ==
  [][ /\ (last' # last /\ last'.op = "register"
                       /\ last'.code = "semester_closed")
           => /\ ActiveStops(stopped_semesters, last'.req.branch,
                             last'.req.semester) # {}
              /\ users' = users /\ students' = students
              /\ session' = session
      /\ \A tx \in BagToSet(session') :
           (tx.kind = "register" /\ Opens(tx))
             => /\ ActiveStops(stopped_semesters, tx.form.branch,
                               tx.form.semester) = {}
                /\ tx.day = today
                /\ users' = users /\ students' = students
      /\ \A tx \in InFlight("register") :
           (Closes(tx) /\ last'.op = "register" /\ last'.code = "ok")
             => \E s \in students' :
                  /\ s \notin students
                  /\ students' = students \cup {s}
                  /\ InPair(s, tx.form.branch, tx.form.semester)
                  /\ s.is_semester_active
                  /\ s.semester_start_date = tx.day ]_vars

\* A student registered into a pair after its stop record was reactivated,
\* next to a student the stop archived.
C9_Witness ==
  /\ last.op = "register" /\ last.code = "ok"
  /\ ActiveStops(stopped_semesters, last.req.branch, last.req.semester) = {}
  /\ \E r \in stopped_semesters :
       /\ r.branch = last.req.branch /\ r.semester = last.req.semester
       /\ ~ r.is_active
       /\ \E s, t \in students :
            /\ InPair(s, r.branch, r.semester) /\ InPair(t, r.branch, r.semester)
            /\ ~ s.is_semester_active
            /\ \E h \in semester_history : h.student_id = s.id
            /\ t.is_semester_active
            /\ t.semester_start_date > r.stopped_at

\* C10: a check-in attempt made while the teacher's record of the day has a
\* check-in and no check-out is rejected and leaves the record unchanged; a
\* check-out succeeds once, and a request after it changes nothing.
C10_SecondCheckInRejected ==
  [][ \A tx \in InFlight("teacher") :
        Closes(tx) =>
          \A r \in teacher_attendance :
            (r.teacher_id = tx.req.teacher /\ r.date = tx.day)
              => /\ (tx.req.button = "Check In" /\ r.check_out = None)
                      => r \in teacher_attendance'
                 /\ r.check_out # None => r \in teacher_attendance' ]_vars

\* C11: at most one TeacherAttendance row per (teacher, date), for every
\* interleaving of mark_teacher_attendance requests.
C11_OneRowPerTeacherDay ==
  \A a, b \in teacher_attendance :
    (a.teacher_id = b.teacher_id /\ a.date = b.date) => a = b

\* C12: a check-in row is written only when the teacher has no row for the
\* day; a check-out is written only on an existing row whose check_out is
\* empty; a row whose check_out is set never changes, and a request that
\* finishes while the day's row is checked out is rejected.
C12_CheckInThenOutOnce ==
  [][ /\ \A r \in teacher_attendance' \ teacher_attendance :
           IF \E q \in teacher_attendance : q.id = r.id
           THEN \E q \in teacher_attendance :
                  /\ q.id = r.id
                  /\ q.check_out = None /\ r.check_out # None
                  /\ r = [q EXCEPT !.check_out = r.check_out]
           ELSE /\ r.check_out = None
                /\ ~ \E q \in teacher_attendance :
                       q.teacher_id = r.teacher_id /\ q.date = r.date
      /\ \A q \in teacher_attendance :
           q.check_out # None => q \in teacher_attendance'
      /\ \A tx \in InFlight("teacher") :
           ( /\ Closes(tx)
             /\ \E q \in teacher_attendance :
                  /\ q.teacher_id = tx.req.teacher /\ q.date = tx.day
                  /\ q.check_out # None )
             => last'.code \notin {"check_in", "check_out"} ]_vars

\* The rows of the table that carry what the request asked for, one period.
Written(att, tx, period) ==
  {a \in att : /\ a.student_id = tx.req.student_id
               /\ a.date = tx.day /\ a.period = period
               /\ a.status = tx.req.status
               /\ a.subject = tx.req.subject
               /\ a.attendance_type = tx.req.attendance_type
               /\ a.marked_by = tx.req.teacher}

\* C19: when the notifier's send raises, the mark request still answers
\* success and the rows it wrote are committed: the step that ends the
\* request with a failed send leaves every period it marked in the table.
C19_NotifierFailureIsSwallowed ==
  [][ \A tx \in InFlight("mark") :
        (Closes(tx) /\ last'.op = "mark"
                    /\ last'.mail \in {"logged", "raised"})
          => /\ last'.code = "ok"
             /\ \A p \in tx.req.periods : Written(attendance', tx, p) # {}
    ]_vars

\* A mark has committed a row, the send raised and the answer was success.
C19_Witness ==
  /\ last.op = "mark" /\ last.mail = "logged" /\ last.code = "ok"
  /\ \E a \in attendance :
       a.student_id = last.req.student_id /\ a.status = "absent"

\* The rows of a table for one (student, date, period).
KeyRows(att, student_id, date, period) ==
  {a \in att : a.student_id = student_id /\ a.date = date /\ a.period = period}

\* C13: after a mark request commits, the key of each period it marked has a
\* single stored row, carrying the status, subject, type and teacher of that
\* request: of two requests that both succeed, the last to commit.
C13_LastCommitWins ==
  [][ \A tx \in InFlight("mark") :
        (Closes(tx) /\ last'.op = "mark" /\ last'.code = "ok")
          => \A p \in tx.req.periods :
               LET rows == KeyRows(attendance', tx.req.student_id, tx.day, p)
               IN Cardinality(rows) = 1 /\ rows = Written(attendance', tx, p)
    ]_vars

\* C14: a mark of a (student, today, period) that already has a row with the
\* same status, subject and type, made after the first mark has committed,
\* leaves exactly one row for the key, the same but for marked_at (and the
\* marking teacher).
C14_RemarkIsIdempotent ==
  [][ \A tx \in InFlight("mark") :
        (Closes(tx) /\ last'.op = "mark" /\ last'.code = "ok")
          => \A p \in tx.req.periods :
               \A a \in KeyRows(attendance, tx.req.student_id, tx.day, p) :
                 ( /\ a.status = tx.req.status
                   /\ a.subject = tx.req.subject
                   /\ a.attendance_type = tx.req.attendance_type )
                 => KeyRows(attendance', tx.req.student_id, tx.day, p)
                      = {[a EXCEPT !.marked_at = tx.day,
                                   !.marked_by = tx.req.teacher]} ]_vars

\* A mark found the row of an earlier mark, updated it and one row is there.
C14_Witness ==
  /\ last.op = "mark" /\ last.code = "ok" /\ last.updated = 1
  /\ \E a \in attendance :
       /\ a.student_id = last.req.student_id /\ a.date = today
       /\ KeyRows(attendance, a.student_id, a.date, a.period) = {a}

\* C15: a mark request changes the attendance table only if the teacher's
\* branch is the student's branch or one of ADMIN and EXAMINATION.
C15_MarkOnlyOwnBranch ==
  [][ \A tx \in InFlight("mark") :
        (Closes(tx) /\ attendance' # attendance)
          => \E s \in students :
               /\ s.id = tx.req.student_id
               /\ \/ TeacherBranch(tx.req.teacher) \in {"ADMIN", "EXAMINATION"}
                  \/ TeacherBranch(tx.req.teacher) = s.branch ]_vars

\* C18: an Attendance row is never removed and keeps its student, date,
\* period and semester_at_time; it changes only in the commit of a mark
\* request for its student and period whose day is the row's date, so a row
\* dated before the current day does not change.
C18_AttendanceFrozen ==
  [][ \A a \in attendance :
        /\ \E b \in attendance' :
             /\ b.id = a.id
             /\ b.student_id = a.student_id /\ b.date = a.date
             /\ b.period = a.period
             /\ b.semester_at_time = a.semester_at_time
        /\ a \notin attendance'
             => \E tx \in InFlight("mark") :
                  /\ Closes(tx)
                  /\ tx.req.student_id = a.student_id
                  /\ a.period \in tx.req.periods
                  /\ tx.day = a.date
        /\ a.date < today => a \in attendance' ]_vars

\* On the second day a row of the first day is still there, next to a row of
\* the second day that a re-mark has just updated with another status.
C18_Witness ==
  /\ today = 2
  /\ last.op = "mark" /\ last.code = "ok" /\ last.updated = 1
  /\ \E a, b \in attendance :
       /\ a.student_id = b.student_id /\ a.period = b.period
       /\ a.date = 1 /\ b.date = 2
       /\ a.marked_at = 1
       /\ a.status # b.status

\* C16: is_semester_active becomes true only in the registration that
\* creates the student; a student whose flag is false never has it true
\* again, and the student's semester does not change.
C16_FlagNeverReturns ==
  [][ \A t \in students' :
        /\ \A s \in students :
             s.id = t.id =>
               /\ t.current_semester = s.current_semester
               /\ t.is_semester_active => s.is_semester_active
        /\ (\A s \in students : s.id # t.id) =>
             \E tx \in InFlight("register") :
               /\ Closes(tx)
               /\ t.register_number = tx.form.register_number ]_vars

\* The stop record of an archived student's semester has been reactivated
\* and the student is still inactive.
C16_Witness ==
  /\ last.op = "reactivate" /\ last.code = "ok"
  /\ \E s \in students : \E r \in stopped_semesters :
       /\ InPair(s, r.branch, r.semester)
       /\ r.id = last.req /\ ~ r.is_active
       /\ ~ s.is_semester_active
       /\ \E h \in semester_history : h.student_id = s.id

\* C17: SemesterHistory is append-only: every row of the table is in the
\* table, unchanged, after every step.
C17_HistoryAppendOnly ==
  [][ \A h \in semester_history : h \in semester_history' ]_vars

\* A history row written on an earlier day is there after a later request
\* of another handler has finished.
C17_Witness ==
  /\ last.op \in {"reactivate", "dashboard", "mark", "register"}
  /\ last.code = "ok"
  /\ \E h \in semester_history : h.stopped_at < today

\* Row by row: <<rows counted, rows counted that are present>> among the
\* student's rows dated in [start, end], of the student's current semester,
\* with a type of `bucket`.
RECURSIVE C20_Tally(_, _, _, _, _)
C20_Tally(rows, student, start, end, bucket) ==
  IF rows = {} THEN <<0, 0>>
  ELSE LET a == CHOOSE x \in rows : TRUE
           rest == C20_Tally(rows \ {a}, student, start, end, bucket)
           counted == /\ a.student_id = student.id
                      /\ start <= a.date /\ a.date <= end
                      /\ a.semester_at_time = student.current_semester
                      /\ a.attendance_type \in bucket
       IN <<rest[1] + (IF counted THEN 1 ELSE 0),
            rest[2] + (IF counted /\ a.status = "present" THEN 1 ELSE 0)>>

\* The spec's example: the student's rows are two theory marks on the start
\* date, one present and one absent.
C20_Example(student) ==
  LET mine == {a \in attendance : a.student_id = student.id}
  IN /\ Cardinality(mine) = 2
     /\ \A a \in mine : /\ a.date = student.semester_start_date
                        /\ a.attendance_type = "theory"
                        /\ a.semester_at_time = student.current_semester
     /\ \E a, b \in mine : a.status = "present" /\ b.status = "absent"

\* C20: for every student and date range get_comprehensive_attendance counts
\* exactly the student's rows dated in the range with semester_at_time the
\* student's current semester, theory apart from practical (lab, crt,
\* workshop), total = rows and present = rows with status present; on the
\* example the report shows 2, 1, 50 and 50.
C20_ComprehensiveCounts ==
  /\ \A student \in students : \A start, end \in Days :
       LET g == get_comprehensive_attendance(attendance, student, start, end)
           theory == C20_Tally(attendance, student, start, end, {"theory"})
           practical == C20_Tally(attendance, student, start, end,
                                  {"lab", "crt", "workshop"})
       IN /\ g.theory_total = theory[1]
          /\ g.theory_present = theory[2]
          /\ g.practical_total = practical[1]
          /\ g.practical_present = practical[2]
          /\ g.total_periods = theory[1] + practical[1]
          /\ g.present_periods = theory[2] + practical[2]
  /\ last.op = "report" =>
       \A student \in students :
         (student.id = last.req /\ C20_Example(student)
            /\ last.data.end_date >= student.semester_start_date)
           => /\ last.data.theory_total = 2
              /\ last.data.theory_present = 1
              /\ last.data.theory_percentage = 50
              /\ last.data.overall_percentage = 50

\* The report of the example's student has been shown, next to rows of
\* another type and another semester in the table of the other student.
C20_Witness ==
  /\ last.op = "report"
  /\ \E student \in students :
       /\ student.id = last.req /\ C20_Example(student)
       /\ last.data.theory_total = 2

\* C21: in every result of get_comprehensive_attendance, for every student,
\* table and date range, the theory and practical totals add up to
\* total_periods and the theory and practical presents to present_periods;
\* so do the figures the report page was given.
C21_BucketsAddUp ==
  /\ \A student \in students : \A start, end \in Days :
       LET g == get_comprehensive_attendance(attendance, student, start, end)
       IN /\ g.theory_total + g.practical_total = g.total_periods
          /\ g.theory_present + g.practical_present = g.present_periods
  /\ last.op = "report" =>
       /\ last.data.theory_total + last.data.practical_total
            = last.data.total_periods
       /\ last.data.theory_present + last.data.practical_present
            = last.data.present_periods

\* A report over a theory row, and one over a row of a type that belongs to
\* neither bucket.
C21_Witness ==
  /\ last.op = "report"
  /\ last.data.theory_total = 1
  /\ \E a \in attendance :
       /\ a.student_id = last.req
       /\ a.attendance_type = "seminar"
       /\ a.semester_at_time = 3
       /\ a.date >= last.data.start_date /\ a.date <= last.data.end_date

\* The percentages of one roster row or report, each with its denominator.
C22_Zero(total, percentage) == total = 0 => percentage = 0

\* C22: every percentage the aggregation functions compute (theory,
\* practical, overall, per subject, monthly roster, semester roster, teacher
\* yearly) is 0 when its denominator is 0, and a date range without rows
\* gives totals that are all zero; the same holds of what the pages showed.
C22_EmptyBucketIsZero ==
  /\ \A student \in students : \A start, end \in Days :
       LET g == get_comprehensive_attendance(attendance, student, start, end)
           none == ~ \E a \in attendance :
                       /\ a.student_id = student.id
                       /\ start <= a.date /\ a.date <= end
       IN /\ C22_Zero(g.theory_total, g.theory_percentage)
          /\ C22_Zero(g.practical_total, g.practical_percentage)
          /\ C22_Zero(g.total_periods, g.overall_percentage)
          /\ \A subject \in DOMAIN g.subject_wise :
               C22_Zero(g.subject_wise[subject].total,
                        g.subject_wise[subject].percentage)
          /\ none => /\ g.total_periods = 0 /\ g.present_periods = 0
                     /\ g.theory_total = 0 /\ g.practical_total = 0
                     /\ g.theory_percentage = 0 /\ g.practical_percentage = 0
                     /\ g.overall_percentage = 0
                     /\ DOMAIN g.subject_wise = {}
                     /\ DOMAIN g.monthly_breakdown = {}
  /\ \A slice \in Slices, month \in Months :
       LET data == get_monthly_attendance(slice.branch, slice.semester,
                                          slice.section, month)
       IN \A i \in DOMAIN data :
            C22_Zero(data[i].theory_total + data[i].practical_total,
                     data[i].overall_percentage)
  /\ \A slice \in Slices :
       \A first \in FirstStops({s \in students :
                                  InSlice(s, slice.branch, slice.semester,
                                          slice.section)}) :
         LET data == get_semester_attendance(slice.branch, slice.semester,
                                             slice.section, first)
         IN \A i \in DOMAIN data :
              /\ C22_Zero(data[i].theory_total, data[i].theory_percentage)
              /\ C22_Zero(data[i].practical_total,
                          data[i].practical_percentage)
              /\ C22_Zero(data[i].total_classes, data[i].overall_percentage)
  /\ \A teacher \in Teachers :
       LET y == get_teacher_yearly_attendance(teacher)
       IN C22_Zero(y.working_days, y.percentage)
  /\ last.op = "yearly" =>
       C22_Zero(last.data.working_days, last.data.percentage)
  /\ last.op = "monthly" =>
       \A i \in DOMAIN last.data :
         C22_Zero(last.data[i].theory_total + last.data[i].practical_total,
                  last.data[i].overall_percentage)
  /\ last.op = "semester" =>
       \A i \in DOMAIN last.data :
         /\ C22_Zero(last.data[i].theory_total,
                     last.data[i].theory_percentage)
         /\ C22_Zero(last.data[i].practical_total,
                     last.data[i].practical_percentage)
         /\ C22_Zero(last.data[i].total_classes,
                     last.data[i].overall_percentage)

\* The yearly report of a teacher who registered and checked in on the
\* year's last day, a Saturday: a day present and no working day.
C22_Witness ==
  /\ last.op = "yearly"
  /\ last.data.working_days = 0
  /\ last.data.total_days_present = 1
  /\ \E s \in students, a \in attendance :
       a.student_id = s.id /\ a.attendance_type = "theory"

\* C23: every step that adds a TeacherAttendance row commits a request whose
\* coordinates verify_location accepts, and the row carries them;
\* verify_location answers false whenever a coordinate is missing or not a
\* number or the point lies beyond the allowed radius, and true only for a
\* point within it.
C23_CheckInOnlyOnPremises ==
  [][/\ \A r \in teacher_attendance' :
          (~ \E o \in teacher_attendance : o.id = r.id) =>
            /\ verify_location(r.latitude, r.longitude)
            /\ r.location_verified
            /\ \E tx \in InFlight("teacher") :
                 /\ Closes(tx)
                 /\ tx.req.teacher = r.teacher_id
                 /\ tx.req.latitude = r.latitude
                 /\ tx.req.longitude = r.longitude
                 /\ verify_location(tx.req.latitude, tx.req.longitude)
     /\ \A latitude, longitude \in Coords :
          /\ ({latitude, longitude} \cap {"none", "abc"} # {}
                => verify_location(latitude, longitude) = FALSE)
          /\ (latitude = "far" \/ longitude = "far"
                => verify_location(latitude, longitude) = FALSE)
          /\ (verify_location(latitude, longitude) = TRUE
                => latitude = "ref" /\ longitude = "ref")
     /\ last'.op = "teacher" /\ last'.code = "outside_premises"
          => teacher_attendance' = teacher_attendance]_vars

\* A teacher has checked in on one day, and a request from elsewhere was
\* turned away on the next.
C23_Witness ==
  /\ last.op = "teacher" /\ last.code = "outside_premises"
  /\ \E r \in teacher_attendance :
       r.date < today /\ verify_location(r.latitude, r.longitude)

\* C24: every stored Attendance row has a status of present or absent and a
\* type of theory, lab, crt or workshop, whatever the requests supplied.
C24_StoredValuesAreValid ==
  \A a \in attendance :
    /\ a.status \in {"present", "absent"}
    /\ a.attendance_type \in {"theory", "lab", "crt", "workshop"}

\* The end of the student's range as the roster must show it.
C25_EndDates(student) ==
  LET stops == ActiveStops(stopped_semesters, student.branch,
                           student.current_semester)
      archive == {h \in semester_history :
                    /\ h.student_id = student.id
                    /\ h.semester_number = student.current_semester}
  IN IF stops # {} THEN {r.stopped_at : r \in stops}
     ELSE IF ~ student.is_semester_active /\ archive # {}
          THEN {h.end_date : h \in {g \in archive :
                  \A f \in archive : f.stopped_at <= g.stopped_at}}
     ELSE {today}

\* C25: the semester roster of a slice lists the students of the slice, and
\* each row starts at the student's own semester_start_date, ends at the stop
\* date of an active stop record of the student's pair, else at the end_date
\* of the student's latest SemesterHistory row when the student is inactive
\* and has one, else today, and counts exactly the student's rows of the
\* current semester dated within that range.
C25_RosterRanges ==
  \A slice \in Slices :
    LET listed == {s \in students :
                     InSlice(s, slice.branch, slice.semester, slice.section)}
    IN \A first \in FirstStops(listed) :
         LET data == get_semester_attendance(slice.branch, slice.semester,
                                             slice.section, first)
         IN /\ {data[i].student : i \in DOMAIN data} = listed
            /\ Len(data) = Cardinality(listed)
            /\ \A i \in DOMAIN data :
                 LET row == data[i]
                     theory == C20_Tally(attendance, row.student,
                                 row.start_date, row.end_date, {"theory"})
                     practical == C20_Tally(attendance, row.student,
                                    row.start_date, row.end_date,
                                    {"lab", "crt", "workshop"})
                 IN /\ row.start_date = row.student.semester_start_date
                    /\ row.end_date \in C25_EndDates(row.student)
                    /\ row.theory_total = theory[1]
                    /\ row.theory_present = theory[2]
                    /\ row.practical_total = practical[1]
                    /\ row.practical_present = practical[2]
                    /\ row.total_classes = theory[1] + practical[1]
                    /\ row.total_present = theory[2] + practical[2]

\* The roster shown lists two students of one pair with different ranges:
\* one archived by a stop since reactivated, one registered afterwards, and
\* an attendance row stored.
C25_Witness ==
  /\ last.op = "semester"
  /\ attendance # {}
  /\ \E i, j \in DOMAIN last.data :
       /\ last.data[i].student \in students
       /\ last.data[j].student \in students
       /\ last.data[i].student.branch = last.data[j].student.branch
       /\ last.data[i].student.current_semester
            = last.data[j].student.current_semester
       /\ last.data[i].start_date < last.data[j].start_date
       /\ last.data[i].end_date < last.data[j].end_date
       /\ ~ last.data[i].is_active
       /\ last.data[i].total_classes > 0

\* C26: the monthly roster of a slice has one row per student of the slice,
\* in ascending order of register number, and each row's overall_percentage
\* is (theory_present + practical_present) * 100 over (theory_total +
\* practical_total) of the student's rows dated within the month, 0 when
\* there is none.
C26_MonthlyRoster ==
  \A slice \in Slices, month \in Months :
    LET listed == {s \in students :
                     InSlice(s, slice.branch, slice.semester, slice.section)}
        data == get_monthly_attendance(slice.branch, slice.semester,
                                       slice.section, month)
    IN /\ Len(data) = Cardinality(listed)
       /\ {data[i].student : i \in DOMAIN data} = listed
       /\ \A i, j \in DOMAIN data :
            i < j => RegisterRank(data[i].student.register_number)
                       < RegisterRank(data[j].student.register_number)
       /\ \A i \in DOMAIN data :
            LET mine == {a \in attendance :
                           /\ a.student_id = data[i].student.id
                           /\ month_key(a.date) = month}
                counted == Theory(mine) \cup Practical(mine)
            IN /\ data[i].theory_total + data[i].practical_total
                    = Cardinality(counted)
               /\ data[i].theory_present + data[i].practical_present
                    = Present(counted)
               /\ data[i].overall_percentage
                    = IF counted = {} THEN 0
                      ELSE (Present(counted) * 100) \div Cardinality(counted)

\* Whether the student's counted rows of `att` give less than 75 per cent.
C27_Below(att, student) ==
  LET theory == C20_Tally(att, student, student.semester_start_date, today,
                          {"theory"})
      practical == C20_Tally(att, student, student.semester_start_date,
                             today, {"lab", "crt", "workshop"})
      total == theory[1] + practical[1]
      present == theory[2] + practical[2]
  IN total = 0 \/ present * 100 < 75 * total

\* C27: a mark request that succeeds invokes the low-attendance notifier for
\* the marked student exactly when the student's overall percentage over the
\* table as committed is below 75.
C27_NotifierIffBelowThreshold ==
  [][\A tx \in InFlight("mark") :
       (Closes(tx) /\ last'.op = "mark" /\ last'.code = "ok"
          /\ last'.req = MarkKey(tx.req))
         => \A s \in students' :
              s.id = tx.req.student_id =>
                (last'.mail # "none" <=> C27_Below(attendance', s))]_vars

\* A mark has just succeeded without the notifier, for a student at 100 per
\* cent, while the other student has an absence, marked with the notifier.
C27_Witness ==
  /\ last.op = "mark" /\ last.code = "ok" /\ last.mail = "none"
  /\ \E a \in attendance :
       a.student_id = last.req.student_id /\ a.status = "present"
  /\ \E a \in attendance :
       a.student_id # last.req.student_id /\ a.status = "absent"

\* C28: the archive never holds two SemesterHistory rows for the same
\* student and semester number.
C28_OneHistoryPerStudentSemester ==
  \A h, g \in semester_history :
    (h.student_id = g.student_id /\ h.semester_number = g.semester_number)
      => h = g

\* C29: for every archived student the semester roster reports the totals
\* and presents stored in the student's SemesterHistory row of the current
\* semester, in every state after the archive.
C29_SnapshotStaysTrue ==
  \A first \in FirstStops(students) :
    LET data == get_semester_attendance("all", "all", "all", first)
    IN \A i \in DOMAIN data : \A h \in semester_history :
         (h.student_id = data[i].student.id
            /\ h.semester_number = data[i].student.current_semester)
           => /\ data[i].theory_total = h.total_theory_classes
              /\ data[i].theory_present = h.present_theory_classes
              /\ data[i].practical_total = h.total_lab_classes
              /\ data[i].practical_present = h.present_lab_classes

\* The sum of field `field` over the entries of a breakdown.
RECURSIVE C30_Sum(_, _, _)
C30_Sum(breakdown, keys, field) ==
  IF keys = {} THEN 0
  ELSE LET k == CHOOSE x \in keys : TRUE
       IN breakdown[k][field] + C30_Sum(breakdown, keys \ {k}, field)

\* C30: in every result of get_comprehensive_attendance the monthly
\* breakdown sums to the theory and practical totals and presents, and the
\* subject-wise breakdown sums to total_periods and present_periods.
C30_BreakdownsAccountForRows ==
  \A student \in students : \A start, end \in Days :
    LET g == get_comprehensive_attendance(attendance, student, start, end)
        months == DOMAIN g.monthly_breakdown
        subjects == DOMAIN g.subject_wise
    IN /\ C30_Sum(g.monthly_breakdown, months, "theory_total")
            = g.theory_total
       /\ C30_Sum(g.monthly_breakdown, months, "theory_present")
            = g.theory_present
       /\ C30_Sum(g.monthly_breakdown, months, "practical_total")
            = g.practical_total
       /\ C30_Sum(g.monthly_breakdown, months, "practical_present")
            = g.practical_present
       /\ C30_Sum(g.subject_wise, subjects, "total") = g.total_periods
       /\ C30_Sum(g.subject_wise, subjects, "present") = g.present_periods

====
